---- MODULE Spec2Model ----
(***************************************************************************)
(* Model of waaa (src/src/main.rs): a Discord bot whose message handler    *)
(* word_shock decides whether a chat message triggers a shock, gates the   *)
(* shock with the per-user ShockCooldown and commands the PiShock device.  *)
(*                                                                         *)
(* Time is counted in ticks of std::time::Instant, TicksPerSec ticks to a  *)
(* second, so that Duration::as_secs (a floor) is a real conversion.       *)
(* Every handler invocation is a process that walks through word_shock;    *)
(* ctx.data is a tokio RwLock whose write guard `data` lives from line 61  *)
(* to the end of the function.                                             *)
(***************************************************************************)
EXTENDS Integers, Sequences, FiniteSets

(* ------------------------------ bounds -------------------------------- *)

\* Instant ticks per second (the real clock has 10^9).
TicksPerSec == 2
\* The clock stops advancing at this many ticks.
MaxClock == 4
\* Messages delivered in one run.
MaxMessages == 3
\* Largest cooldown_segment_duration (seconds) and max_shocks_per_segment
\* a config.ron of the model holds.
MaxDuration == 1
MaxShocks == 2
\* Longest message text given to the trigger evaluation on its own.
MaxTextLen == 4

\* Message authors, handler tasks in flight, and the operator's user id.
Users == {1, 2}
Handlers == {1, 2}
Operators == {9}

(* ------------------------- text and trigger --------------------------- *)

\* Characters are one-letter strings; a text is a sequence of them.
WordChars == {"c", "a", "t", "s", "C"}
SpaceChars == {" "}

IsWordChar(c) == c \in WordChars
IsSpace(c) == c \in SpaceChars

\* char::to_lowercase on the alphabet of the model.
LowerChar(c) == IF c = "C" THEN "c" ELSE c
to_lowercase(w) == [i \in 1..Len(w) |-> LowerChar(w[i])]

\* \b at offset i (between s[i] and s[i+1]; offsets 0..Len(s)).
WordBoundary(s, i) ==
    LET before == i >= 1 /\ IsWordChar(s[i])
        after == i < Len(s) /\ IsWordChar(s[i + 1])
    IN before # after

\* The end offsets of \b[^\s]+ : the pattern without its closing \b.
MatchEndsUnanchored(s, i) ==
    {j \in (i + 1)..Len(s) : \A k \in (i + 1)..j : ~IsSpace(s[k])}

\* The end offsets at which \b[^\s]+\b can match when started at offset i.
MatchEnds(s, i) ==
    {j \in (i + 1)..Len(s) :
        /\ \A k \in (i + 1)..j : ~IsSpace(s[k])
        /\ WordBoundary(s, j)}

SetMax(S) == CHOOSE x \in S : \A y \in S : y <= x

\* captures_iter: leftmost match first, greedy, matches do not overlap.
RECURSIVE Captures(_, _)
Captures(s, i) ==
    IF i >= Len(s) THEN <<>>
    ELSE IF WordBoundary(s, i) /\ MatchEnds(s, i) # {}
         THEN LET j == SetMax(MatchEnds(s, i))
              IN <<SubSeq(s, i + 1, j)>> \o Captures(s, j)
         ELSE Captures(s, i + 1)

message_words(content) == Captures(content, 0)

\* The block 'do_shock without its test of the mentions.
ShouldShockWordsOnly(m, cfg) ==
    \E k \in 1..Len(message_words(m.content)) :
        \E x \in cfg.trigger_words :
            x = to_lowercase(message_words(m.content)[k])

\* The block 'do_shock with `starts_with` in place of `==`.
ShouldShockPrefix(m, cfg) ==
    \/ \E x \in cfg.operator_ids : x \in m.mentions
    \/ \E k \in 1..Len(message_words(m.content)) :
           \E x \in cfg.trigger_words :
               LET w == to_lowercase(message_words(m.content)[k])
               IN Len(w) >= Len(x) /\ SubSeq(w, 1, Len(x)) = x

\* The labeled block 'do_shock.
ShouldShock(m, cfg) ==
    \/ \E x \in cfg.operator_ids : x \in m.mentions
    \/ \E k \in 1..Len(message_words(m.content)) :
           \E x \in cfg.trigger_words :
               x = to_lowercase(message_words(m.content)[k])

(* ------------------------------ state --------------------------------- *)

VARIABLES
    config,                 \* the parsed config.ron
    clock,                  \* what Instant::now() returns, in ticks
    user_shock_cooldowns,   \* HashMap<UserId, ShockCooldown>
    data_lock,              \* holder of the write guard of ctx.data
    pc,                     \* where each handler task is in word_shock
    msg,                    \* the Message each handler task was given
    do_shock,               \* the local do_shock
    seconds_until_reset,    \* the local seconds_until_reset
    panicked,               \* the task died in an unwrap or an overflow check
    tf,                     \* what can_shock read and answered in this call
    fired,                  \* shocker.shock calls per user since the stopwatch was set
    calls,                  \* can_shock answers per user since the stopwatch was set
    allowed,                \* can_shock answers `true` per user since then
    received,               \* messages delivered so far
    watch,                  \* whether created and recent are kept
    created,                \* or_insert stored a new entry in this call
    recent                  \* per user, the clock readings of the counted
                            \* `true` answers less than a segment old

vars == <<config, clock, user_shock_cooldowns, data_lock, pc, msg, do_shock,
          seconds_until_reset, panicked, tf, fired, calls, allowed, received,
          watch, created, recent>>

NoHolder == 0
NoEntry == [stopwatch |-> -1, shock_count |-> 0]
NoMsg == [author |-> 0, content |-> <<>>, mentions |-> {}]
NoSeconds == [ovf |-> FALSE, val |-> -1]
NoCall == [now |-> -1, start0 |-> -1, rolled |-> FALSE, seen |-> -1, result |-> "none"]

HasEntry(u) == user_shock_cooldowns[u] # NoEntry

Contents == { <<"c", "a", "t">>, <<"C", "a", "t", "s">> }
\* A text that holds the trigger word, and a text that does not, sent with or
\* without a mention of the operator.
Messages ==
    [author : Users, content : Contents, mentions : {{}}]
        \cup [author : Users, content : {<<"C", "a", "t", "s">>}, mentions : {Operators}]

Configs ==
    [cooldown_segment_duration : 0..MaxDuration,
     max_shocks_per_segment : 0..MaxShocks,
     trigger_words : {{<<"c", "a", "t">>}},
     operator_ids : {Operators}]

\* Duration::from_secs(config.cooldown_segment_duration as u64), in ticks.
segment_length == config.cooldown_segment_duration * TicksPerSec

\* The time since the program started in place of the time since the stopwatch.
ElapsedSinceStart(stopwatch) == clock

\* Instant::elapsed of a stopwatch.
Elapsed(stopwatch) == clock - stopwatch
\* Duration::as_secs.
as_secs(ticks) == ticks \div TicksPerSec

Init ==
    /\ config \in Configs
    /\ clock = 0
    /\ user_shock_cooldowns = [u \in Users |-> NoEntry]
    /\ data_lock = NoHolder
    /\ pc = [h \in Handlers |-> "idle"]
    /\ msg = [h \in Handlers |-> NoMsg]
    /\ do_shock = [h \in Handlers |-> FALSE]
    /\ seconds_until_reset = [h \in Handlers |-> NoSeconds]
    /\ panicked = [h \in Handlers |-> FALSE]
    /\ tf = [h \in Handlers |-> NoCall]
    /\ fired = [u \in Users |-> 0]
    /\ calls = [u \in Users |-> 0]
    /\ allowed = [u \in Users |-> 0]
    /\ received = 0
    /\ watch = FALSE
    /\ created = [h \in Handlers |-> FALSE]
    /\ recent = [u \in Users |-> <<>>]

(* ----------------------------- actions -------------------------------- *)

\* The readings out of times that are less than a segment before the reading now.
StillRecent(times, now) ==
    SelectSeq(times, LAMBDA t : t > now - segment_length)

\* Unless a task stands between can_shock's answer and the shock, every later
\* answer is read at `now` or after it, and the readings a segment or more
\* before `now` are of no further use.
Forgotten(now) ==
    IF \E h \in Handlers : pc[h] = "shock"
    THEN recent
    ELSE [u \in Users |-> StillRecent(recent[u], now)]

\* The clock advances, also while a handler is between two of its readings.
Tick ==
    /\ clock < MaxClock
    /\ clock' = clock + 1
    /\ recent' = Forgotten(clock + 1)
    /\ UNCHANGED <<config, user_shock_cooldowns, data_lock, pc, msg, do_shock,
                   seconds_until_reset, panicked, tf, fired, calls, allowed, received,
                   created, watch>>

\* Handler::message: the gateway hands a message to a fresh task.
Receive(h, m) ==
    /\ pc[h] = "idle"
    /\ received < MaxMessages
    /\ received' = received + 1
    /\ msg' = [msg EXCEPT ![h] = m]
    /\ pc' = [pc EXCEPT ![h] = "lock"]
    /\ UNCHANGED <<config, clock, user_shock_cooldowns, data_lock, do_shock,
                   seconds_until_reset, panicked, tf, fired, calls, allowed,
                   created, recent, watch>>

\* The gate with the test of do_shock left out: the cooldown is consulted for
\* every message.
AfterTriggerUngated(ds) == "entry"

\* `if do_shock && !...can_shock(..)` and `if do_shock`: a message that did not
\* trigger skips both blocks.
AfterTrigger(ds) == IF ds THEN "entry" ELSE "exit"

\* ctx.data.write().await, then the trigger evaluation up to `if do_shock &&`.
\* Nothing reads msg.content or the mentions after it, and the task forgets them.
Acquire(h) ==
    /\ pc[h] = "lock"
    /\ data_lock = NoHolder
    /\ data_lock' = h
    /\ do_shock' = [do_shock EXCEPT ![h] = ShouldShock(msg[h], config)]
    /\ pc' = [pc EXCEPT ![h] = AfterTrigger(ShouldShock(msg[h], config))]
    /\ msg' = [msg EXCEPT ![h] = [@ EXCEPT !.content = <<>>, !.mentions = {}]]
    /\ UNCHANGED <<config, clock, user_shock_cooldowns,
                   seconds_until_reset, panicked, tf, fired, calls, allowed, received,
                   created, recent, watch>>

\* HashMap::entry(key).or_insert(value): the value is stored only for a new key.
or_insert(table, key, value) ==
    IF table[key] = NoEntry THEN [table EXCEPT ![key] = value] ELSE table

\* insert with the value stored under another user's key.
insert_other_key(table, key, value) ==
    [table EXCEPT ![CHOOSE k \in DOMAIN table : k # key] = value]

\* HashMap::insert(key, value).
insert(table, key, value) == [table EXCEPT ![key] = value]

\* The limit test with `<=`, as can_shock's comment words it ("below or equal").
CanShockLimitOrEqual(shock_count, maximum_shocks) == shock_count <= maximum_shocks

\* can_shock's limit test: `self.shock_count < maximum_shocks`.
CanShockLimit(shock_count, maximum_shocks) == shock_count < maximum_shocks

\* What the task records of the can_shock call it is in.
Answered(reading, start0, rolled, shock_count) ==
    [now |-> reading, start0 |-> start0, rolled |-> rolled, seen |-> shock_count,
     result |-> IF CanShockLimit(shock_count, config.max_shocks_per_segment)
                THEN "Allowed" ELSE "Denied"]

\* user_shock_cooldowns.entry(msg.author.id).or_insert(ShockCooldown { now, 0 }).
Entry(h) ==
    /\ pc[h] = "entry"
    /\ user_shock_cooldowns' =
           or_insert(user_shock_cooldowns, msg[h].author,
                     [stopwatch |-> clock, shock_count |-> 0])
    /\ created' = [created EXCEPT ![h] = watch /\ ~HasEntry(msg[h].author)]
    /\ pc' = [pc EXCEPT ![h] = "can_shock"]
    /\ UNCHANGED <<config, clock, data_lock, msg, do_shock, seconds_until_reset,
                   panicked, tf, fired, calls, allowed, received, recent, watch>>

\* can_shock, `if self.stopwatch.elapsed() >= segment_length`: one clock reading.
\* Below the segment length the limit test follows at once; at or above it the
\* task goes on to read the clock again for the reset.
CanShockElapsed(h) ==
    /\ pc[h] = "can_shock"
    /\ LET u == msg[h].author
           cd == user_shock_cooldowns[u]
           ok == CanShockLimit(cd.shock_count, config.max_shocks_per_segment)
       IN IF Elapsed(cd.stopwatch) >= segment_length
          THEN /\ pc' = [pc EXCEPT ![h] = "reset"]
               /\ tf' = [tf EXCEPT ![h] = [NoCall EXCEPT !.now = clock,
                                                         !.start0 = cd.stopwatch]]
               /\ UNCHANGED <<calls, allowed,
                   created, recent, watch>>
          ELSE /\ pc' = [pc EXCEPT ![h] = IF ok THEN "shock" ELSE "remaining"]
               /\ tf' = [tf EXCEPT ![h] =
                            Answered(clock, cd.stopwatch, FALSE, cd.shock_count)]
               /\ calls' = [calls EXCEPT ![u] = @ + 1]
               /\ allowed' = [allowed EXCEPT ![u] = IF ok THEN @ + 1 ELSE @]
    /\ UNCHANGED <<config, clock, user_shock_cooldowns, data_lock, msg, do_shock,
                   seconds_until_reset, panicked, fired, received,
                   created, recent, watch>>

\* can_shock, the reset: `self.stopwatch = Instant::now(); self.shock_count = 0;`
\* and then the limit test on the reset count.
CanShockReset(h) ==
    /\ pc[h] = "reset"
    /\ LET u == msg[h].author
           ok == CanShockLimit(0, config.max_shocks_per_segment)
       IN /\ user_shock_cooldowns' =
                 [user_shock_cooldowns EXCEPT ![u] =
                     [stopwatch |-> clock, shock_count |-> 0]]
          /\ pc' = [pc EXCEPT ![h] = IF ok THEN "shock" ELSE "remaining"]
          /\ tf' = [tf EXCEPT ![h] = Answered(clock, tf[h].start0, TRUE, 0)]
          /\ fired' = [fired EXCEPT ![u] = 0]
          /\ calls' = [calls EXCEPT ![u] = 1]
          /\ allowed' = [allowed EXCEPT ![u] = IF ok THEN 1 ELSE 0]
    /\ UNCHANGED <<config, clock, data_lock, msg, do_shock, seconds_until_reset,
                   panicked, received,
                   created, recent, watch>>

\* `config.cooldown_segment_duration as u64 - stopwatch.elapsed().as_secs()`
\* when the subtraction does not underflow: a second reading of the clock.
Remaining(h) ==
    /\ pc[h] = "remaining"
    /\ LET secs == as_secs(Elapsed(user_shock_cooldowns[msg[h].author].stopwatch))
       IN /\ secs <= config.cooldown_segment_duration
          /\ seconds_until_reset' = [seconds_until_reset EXCEPT ![h] =
                 [ovf |-> FALSE, val |-> config.cooldown_segment_duration - secs]]
    /\ pc' = [pc EXCEPT ![h] = "say"]
    /\ UNCHANGED <<config, clock, user_shock_cooldowns, data_lock, msg, do_shock,
                   panicked, tf, fired, calls, allowed, received,
                   created, recent, watch>>

\* The same subtraction when it underflows, built without overflow checks
\* (release): the u64 wraps to 2^64 - val, recorded as ovf with val > 0.
RemainingWrap(h) ==
    /\ pc[h] = "remaining"
    /\ LET secs == as_secs(Elapsed(user_shock_cooldowns[msg[h].author].stopwatch))
       IN /\ secs > config.cooldown_segment_duration
          /\ seconds_until_reset' = [seconds_until_reset EXCEPT ![h] =
                 [ovf |-> TRUE, val |-> secs - config.cooldown_segment_duration]]
    /\ pc' = [pc EXCEPT ![h] = "say"]
    /\ UNCHANGED <<config, clock, user_shock_cooldowns, data_lock, msg, do_shock,
                   panicked, tf, fired, calls, allowed, received,
                   created, recent, watch>>

\* The same subtraction when it underflows, built with overflow checks (debug):
\* "attempt to subtract with overflow" unwinds the task.
RemainingPanic(h) ==
    /\ pc[h] = "remaining"
    /\ as_secs(Elapsed(user_shock_cooldowns[msg[h].author].stopwatch))
           > config.cooldown_segment_duration
    /\ panicked' = [panicked EXCEPT ![h] = TRUE]
    /\ pc' = [pc EXCEPT ![h] = "exit"]
    /\ UNCHANGED <<config, clock, user_shock_cooldowns, data_lock, msg, do_shock,
                   seconds_until_reset, tf, fired, calls, allowed, received,
                   created, recent, watch>>

\* msg.channel_id.say(..).await returned Ok: `do_shock = false`.
SayOk(h) ==
    /\ pc[h] = "say"
    /\ do_shock' = [do_shock EXCEPT ![h] = FALSE]
    /\ pc' = [pc EXCEPT ![h] = "exit"]
    /\ UNCHANGED <<config, clock, user_shock_cooldowns, data_lock, msg,
                   seconds_until_reset, panicked, tf, fired, calls, allowed, received,
                   created, recent, watch>>

\* msg.channel_id.say(..).await returned Err: the unwrap unwinds the task.
SayErr(h) ==
    /\ pc[h] = "say"
    /\ panicked' = [panicked EXCEPT ![h] = TRUE]
    /\ pc' = [pc EXCEPT ![h] = "exit"]
    /\ UNCHANGED <<config, clock, user_shock_cooldowns, data_lock, msg, do_shock,
                   seconds_until_reset, tf, fired, calls, allowed, received,
                   created, recent, watch>>

\* `if do_shock`: shocker.shock(40, 1 s).await returned Ok, then the count of
\* the author's cooldown is cloned, incremented and inserted back.
ShockOk(h) ==
    /\ pc[h] = "shock"
    /\ LET u == msg[h].author
           shock_cooldown == user_shock_cooldowns[u]
       IN /\ fired' = [fired EXCEPT ![u] = @ + 1]
          /\ user_shock_cooldowns' =
                 insert(user_shock_cooldowns, u,
                        [shock_cooldown EXCEPT !.shock_count = @ + 1])
          /\ recent' = IF watch
                       THEN [recent EXCEPT ![u] =
                                Append(StillRecent(@, tf[h].now), tf[h].now)]
                       ELSE recent
    /\ pc' = [pc EXCEPT ![h] = "exit"]
    /\ UNCHANGED <<config, clock, data_lock, msg, do_shock, seconds_until_reset,
                   panicked, tf, calls, allowed, received, created, watch>>

\* shocker.shock(..).await returned Err: the unwrap unwinds the task before the
\* count is updated.
ShockErr(h) ==
    /\ pc[h] = "shock"
    /\ fired' = [fired EXCEPT ![msg[h].author] = @ + 1]
    /\ panicked' = [panicked EXCEPT ![h] = TRUE]
    /\ pc' = [pc EXCEPT ![h] = "exit"]
    /\ UNCHANGED <<config, clock, user_shock_cooldowns, data_lock, msg, do_shock,
                   seconds_until_reset, tf, calls, allowed, received,
                   created, recent, watch>>

\* The end of word_shock, by return or by unwinding: the guard `data` is dropped
\* and the task is gone.
Exit(h) ==
    /\ pc[h] = "exit"
    /\ data_lock' = NoHolder
    /\ pc' = [pc EXCEPT ![h] = "idle"]
    /\ msg' = [msg EXCEPT ![h] = NoMsg]
    /\ do_shock' = [do_shock EXCEPT ![h] = FALSE]
    /\ seconds_until_reset' = [seconds_until_reset EXCEPT ![h] = NoSeconds]
    /\ panicked' = [panicked EXCEPT ![h] = FALSE]
    /\ tf' = [tf EXCEPT ![h] = NoCall]
    /\ created' = [created EXCEPT ![h] = FALSE]
    /\ recent' = [u \in Users |-> StillRecent(recent[u], clock)]
    /\ UNCHANGED <<config, clock, user_shock_cooldowns, fired, calls, allowed,
                   received, watch>>

Next ==
    \/ Tick
    \/ \E h \in Handlers : \E m \in Messages : Receive(h, m)
    \/ \E h \in Handlers : Acquire(h)
    \/ \E h \in Handlers : Entry(h)
    \/ \E h \in Handlers : CanShockElapsed(h)
    \/ \E h \in Handlers : CanShockReset(h)
    \/ \E h \in Handlers : Remaining(h)
    \/ \E h \in Handlers : RemainingWrap(h)
    \/ \E h \in Handlers : RemainingPanic(h)
    \/ \E h \in Handlers : SayOk(h)
    \/ \E h \in Handlers : SayErr(h)
    \/ \E h \in Handlers : ShockOk(h)
    \/ \E h \in Handlers : ShockErr(h)
    \/ \E h \in Handlers : Exit(h)

Spec == Init /\ [][Next]_vars

\* The configurations whose segment can end before the clock stops.
WatchConfigs ==
    {c \in Configs : c.cooldown_segment_duration * TicksPerSec <= MaxClock}

\* The same program with created and recent kept.
WatchInit ==
    /\ config \in WatchConfigs
    /\ clock = 0
    /\ user_shock_cooldowns = [u \in Users |-> NoEntry]
    /\ data_lock = NoHolder
    /\ pc = [h \in Handlers |-> "idle"]
    /\ msg = [h \in Handlers |-> NoMsg]
    /\ do_shock = [h \in Handlers |-> FALSE]
    /\ seconds_until_reset = [h \in Handlers |-> NoSeconds]
    /\ panicked = [h \in Handlers |-> FALSE]
    /\ tf = [h \in Handlers |-> NoCall]
    /\ fired = [u \in Users |-> 0]
    /\ calls = [u \in Users |-> 0]
    /\ allowed = [u \in Users |-> 0]
    /\ received = 0
    /\ watch = TRUE
    /\ created = [h \in Handlers |-> FALSE]
    /\ recent = [u \in Users |-> <<>>]

WatchSpec == WatchInit /\ [][Next]_vars

(* -------------------- the trigger evaluation alone -------------------- *)

\* A character that is neither a word character nor white space.
PunctChars == {"-"}
EvalChars == WordChars \cup SpaceChars \cup PunctChars

\* Every text of at most MaxTextLen characters.
EvalContents == UNION {[1..n -> EvalChars] : n \in 0..MaxTextLen}
EvalMessages ==
    [author : Users, content : EvalContents, mentions : {{}, Operators}]

\* trigger_words is a Vec<String>: config.ron may spell a word in lower case,
\* with a capital, or with punctuation inside.
EvalConfigs ==
    [cooldown_segment_duration : {1},
     max_shocks_per_segment : {1},
     trigger_words : {{<<"a", "t">>}, {<<"c", "a", "t">>}, {<<"C", "a", "t">>},
                      {<<"a", "-", "t">>}},
     operator_ids : {Operators}]

EvalInit ==
    /\ config \in EvalConfigs
    /\ clock = 0
    /\ user_shock_cooldowns = [u \in Users |-> NoEntry]
    /\ data_lock = NoHolder
    /\ pc = [h \in Handlers |-> "idle"]
    /\ msg = [h \in Handlers |-> NoMsg]
    /\ do_shock = [h \in Handlers |-> FALSE]
    /\ seconds_until_reset = [h \in Handlers |-> NoSeconds]
    /\ panicked = [h \in Handlers |-> FALSE]
    /\ tf = [h \in Handlers |-> NoCall]
    /\ fired = [u \in Users |-> 0]
    /\ calls = [u \in Users |-> 0]
    /\ allowed = [u \in Users |-> 0]
    /\ received = 0
    /\ watch = FALSE
    /\ created = [h \in Handlers |-> FALSE]
    /\ recent = [u \in Users |-> <<>>]

\* The block 'do_shock applied to one message, the rest of word_shock left out.
Evaluate(h) ==
    /\ \A g \in Handlers : pc[g] = "idle"
    /\ \E m \in EvalMessages :
           /\ msg' = [msg EXCEPT ![h] = m]
           /\ do_shock' = [do_shock EXCEPT ![h] = ShouldShock(m, config)]
    /\ pc' = [pc EXCEPT ![h] = "evaluated"]
    /\ UNCHANGED <<config, clock, user_shock_cooldowns, data_lock,
                   seconds_until_reset, panicked, tf, fired, calls, allowed, received,
                   created, recent, watch>>

\* The result has been read; the next message can be evaluated.
Forget(h) ==
    /\ pc[h] = "evaluated"
    /\ msg' = [msg EXCEPT ![h] = NoMsg]
    /\ do_shock' = [do_shock EXCEPT ![h] = FALSE]
    /\ pc' = [pc EXCEPT ![h] = "idle"]
    /\ UNCHANGED <<config, clock, user_shock_cooldowns, data_lock,
                   seconds_until_reset, panicked, tf, fired, calls, allowed, received,
                   created, recent, watch>>

EvalNext ==
    \/ \E h \in Handlers : Evaluate(h)
    \/ \E h \in Handlers : Forget(h)

EvalSpec == EvalInit /\ [][EvalNext]_vars

(* ------------------------------ claims -------------------------------- *)

Min(a, b) == IF a <= b THEN a ELSE b
\* ceil(ticks / TicksPerSec), in seconds.
CeilSecs(ticks) == (ticks + TicksPerSec - 1) \div TicksPerSec

Author(h) == msg[h].author
Cooldown(h) == user_shock_cooldowns[Author(h)]
ValidConfig == config.cooldown_segment_duration > 0

\* C1: between two settings of a user's stopwatch, shocker.shock is called for
\* that user at most max_shocks_per_segment times, whatever the calls return.
C1_FiresWithinLimit ==
    \A u \in Users : fired[u] <= config.max_shocks_per_segment

\* C2: when can_shock answered true, the author's shock_count at the end of the
\* handler is one more than the count the limit test saw, also when the shock
\* call failed.
C2_IncrementNeverSkipped ==
    \A h \in Handlers :
        (pc[h] = "exit" /\ tf[h].result = "Allowed")
            => Cooldown(h).shock_count = tf[h].seen + 1

\* C3: a task that was answered true holds the guard until the count is
\* incremented, so a task that is about to read a user's cooldown finds every
\* `true` answered since the stopwatch was set counted in shock_count.
C3_NoGrantedUncounted ==
    /\ \A h \in Handlers : pc[h] = "shock" => data_lock = h
    /\ \A h \in Handlers :
           (pc[h] \in {"entry", "can_shock", "reset"} /\ HasEntry(Author(h)))
               => allowed[Author(h)] = Cooldown(h).shock_count

\* C4: when N handlers for one user have run at the clock reading that set the
\* user's stopwatch, exactly min(N, max_shocks_per_segment) of them were
\* answered true and shock_count is that minimum.
C4_ConcurrentAdmissions ==
    \A u \in Users :
        (/\ ValidConfig
         /\ HasEntry(u)
         /\ clock = user_shock_cooldowns[u].stopwatch
         /\ data_lock = NoHolder)
            => /\ allowed[u] = Min(calls[u], config.max_shocks_per_segment)
               /\ user_shock_cooldowns[u].shock_count
                      = Min(calls[u], config.max_shocks_per_segment)

C6_Rollover ==
    \A h \in Handlers :
        (ValidConfig /\ pc[h] = "exit" /\ tf[h].result # "none")
            => IF tf[h].rolled
               THEN /\ Cooldown(h).stopwatch = tf[h].now
                    /\ config.max_shocks_per_segment >= 1
                           => /\ tf[h].result = "Allowed"
                              /\ Cooldown(h).shock_count = 1
               ELSE Cooldown(h).stopwatch = tf[h].start0

\* C7: a refused call reports ceil(duration - (now - stopwatch)) seconds, now
\* being the clock reading of the call's can_shock and stopwatch the one in
\* force after it.
C7_DenialValue ==
    \A h \in Handlers :
        (ValidConfig /\ pc[h] = "say")
            => seconds_until_reset[h] =
                   [ovf |-> FALSE,
                    val |-> CeilSecs(segment_length
                                       - (tf[h].now - Cooldown(h).stopwatch))]

\* C8: every reported seconds_until_reset lies in 1..cooldown_segment_duration:
\* the subtraction never underflows and never yields 0, also when the clock
\* advances during the call.
C8_RemainingInRange ==
    \A h \in Handlers :
        (ValidConfig /\ pc[h] = "say")
            => /\ ~seconds_until_reset[h].ovf
               /\ seconds_until_reset[h].val \in 1..config.cooldown_segment_duration

\* C9: with max_shocks_per_segment = 0 no call is answered true, the shocker is
\* never called, every shock_count stays 0, and the reported seconds are a
\* number from 0 to the segment duration (no underflow).
C9_ZeroLimit ==
    (ValidConfig /\ config.max_shocks_per_segment = 0)
        => /\ \A h \in Handlers : tf[h].result # "Allowed" /\ pc[h] # "shock"
           /\ \A u \in Users :
                  fired[u] = 0 /\ user_shock_cooldowns[u].shock_count = 0
           /\ \A h \in Handlers :
                  pc[h] = "say"
                      => /\ ~seconds_until_reset[h].ovf
                         /\ seconds_until_reset[h].val
                                \in 0..config.cooldown_segment_duration

\* C10: a step changes the cooldown of user u only when it is a step of the
\* handler of a message written by u, and the limit test of a handler reads
\* the count of its own author's cooldown.
C10_UserIndependence ==
    [][/\ \A u \in Users :
              user_shock_cooldowns'[u] # user_shock_cooldowns[u]
                  => /\ data_lock # NoHolder
                     /\ Author(data_lock) = u
                     /\ pc'[data_lock] # pc[data_lock]
       /\ \A h \in Handlers :
              (tf[h].result = "none" /\ tf'[h].result # "none")
                  => tf'[h].seen = user_shock_cooldowns'[Author(h)].shock_count
      ]_vars

\* A handler for one user has shocked and counted while the other user's
\* cooldown, already counting a shock of its own, is in the table.
C10_Witness ==
    \E h \in Handlers : \E u2 \in Users :
        /\ pc[h] = "exit"
        /\ tf[h].result = "Allowed"
        /\ ~panicked[h]
        /\ u2 # Author(h)
        /\ HasEntry(u2)
        /\ user_shock_cooldowns[u2].shock_count >= 1
        /\ Cooldown(h).shock_count # user_shock_cooldowns[u2].shock_count

\* C11: the shocker is called only by a handler whose message triggered and
\* whose can_shock answered true; the reply is sent only by a handler whose
\* message triggered and whose can_shock answered false; a handler whose
\* message did not trigger calls no shocker, sends no reply and leaves the
\* table as it found it, without an entry for its author if there was none.
C11_ControlFlow ==
    [][\A h \in Handlers :
          /\ pc'[h] = "shock" => do_shock'[h] /\ tf'[h].result = "Allowed"
          /\ pc'[h] \in {"remaining", "say"}
                 => do_shock'[h] /\ tf'[h].result = "Denied"
          /\ (data_lock = h /\ fired'[Author(h)] # fired[Author(h)])
                 => \/ pc[h] = "shock" /\ do_shock[h] /\ tf[h].result = "Allowed"
                    \/ pc[h] = "reset"
          /\ (data_lock = h /\ ~do_shock[h] /\ tf[h].result = "none")
                 => /\ user_shock_cooldowns' = user_shock_cooldowns
                    /\ fired' = fired
                    /\ pc[h] = "exit"
                    /\ pc'[h] \in {"exit", "idle"}
      ]_vars

\* A handler whose message did not trigger is at its end, holding the guard;
\* its author has no entry, while the other user has shocked.
C11_Witness ==
    \E h \in Handlers : \E u2 \in Users :
        /\ pc[h] = "exit"
        /\ data_lock = h
        /\ ~do_shock[h]
        /\ tf[h].result = "none"
        /\ ~HasEntry(Author(h))
        /\ HasEntry(u2)
        /\ fired[u2] >= 1

WordRuns(s) ==
    {SubSeq(s, i, j) : <<i, j>> \in
        {p \in (1..Len(s)) \X (1..Len(s)) :
            /\ p[1] <= p[2]
            /\ \A k \in p[1]..p[2] : IsWordChar(s[k])
            /\ p[1] = 1 \/ ~IsWordChar(s[p[1] - 1])
            /\ p[2] = Len(s) \/ ~IsWordChar(s[p[2] + 1])}}

\* For every maximal run of characters other than white space that holds a
\* word character: the run from its first to its last word character.
TrimmedRuns(s) ==
    {SubSeq(s, i, j) : <<i, j>> \in
        {p \in (1..Len(s)) \X (1..Len(s)) :
            /\ p[1] <= p[2]
            /\ IsWordChar(s[p[1]]) /\ IsWordChar(s[p[2]])
            /\ \A k \in p[1]..p[2] : ~IsSpace(s[k])
            /\ \A k \in 1..(p[1] - 1) :
                   (\A q \in k..(p[1] - 1) : ~IsSpace(s[q])) => ~IsWordChar(s[k])
            /\ \A k \in (p[2] + 1)..Len(s) :
                   (\A q \in (p[2] + 1)..k : ~IsSpace(s[q])) => ~IsWordChar(s[k])}}

Evaluated(h) == pc[h] = "evaluated"
MentionsOperator(h) == msg[h].mentions \cap config.operator_ids # {}

\* C14: a message that mentions an operator triggers, whatever its text.
C14_OperatorMention ==
    \A h \in Handlers : (Evaluated(h) /\ MentionsOperator(h)) => do_shock[h]

\* A message with an empty text and a mention of the operator has triggered.
C14_Witness ==
    \E h \in Handlers :
        /\ Evaluated(h)
        /\ MentionsOperator(h)
        /\ msg[h].content = <<>>
        /\ do_shock[h]

\* Some element of tokens, lower-cased, is a configured trigger word.
SomeTokenIsTrigger(tokens) ==
    \E w \in tokens : to_lowercase(w) \in config.trigger_words

\* Some element of tokens and some trigger word are equal once both are lower-cased.
SomeTokenIsTriggerAnyCase(tokens) ==
    \E w \in tokens : \E x \in config.trigger_words :
        to_lowercase(w) = to_lowercase(x)

\* C15 as stated: a message triggers when some maximal run of word characters,
\* lower-cased, equals a trigger word, also next to punctuation ("cat-dog").
C15_WordRunMatch ==
    \A h \in Handlers :
        (Evaluated(h) /\ SomeTokenIsTrigger(WordRuns(msg[h].content))) => do_shock[h]

\* C15 amended: a message triggers when some run of characters other than
\* white space, cut down to its first and last word character and lower-cased,
\* equals a trigger word.
C15_TrimmedRunMatch ==
    \A h \in Handlers :
        (Evaluated(h) /\ SomeTokenIsTrigger(TrimmedRuns(msg[h].content))) => do_shock[h]

\* A message without mention has triggered on a word that punctuation
\* surrounds inside its run.
C15_Witness ==
    \E h \in Handlers :
        /\ Evaluated(h)
        /\ ~MentionsOperator(h)
        /\ msg[h].content = <<"-", "a", "t", "-">>
        /\ SomeTokenIsTrigger(TrimmedRuns(msg[h].content))
        /\ do_shock[h]

\* C16: a trigger word configured with capitals matches a token of the
\* message in any letter case.
C16_CaseInsensitiveConfig ==
    \A h \in Handlers :
        (Evaluated(h) /\ SomeTokenIsTriggerAnyCase(TrimmedRuns(msg[h].content)))
            => do_shock[h]

\* C17 as stated: without operator mention and without a maximal run of word
\* characters that, lower-cased, equals a trigger word, nothing triggers.
C17_NoWordRunNoTrigger ==
    \A h \in Handlers :
        (/\ Evaluated(h)
         /\ ~MentionsOperator(h)
         /\ ~SomeTokenIsTrigger(WordRuns(msg[h].content))) => ~do_shock[h]

\* C17 amended: without operator mention and without a run of characters
\* other than white space that, cut down to its first and last word character
\* and lower-cased, equals a trigger word, nothing triggers.
C17_NoTrimmedRunNoTrigger ==
    \A h \in Handlers :
        (/\ Evaluated(h)
         /\ ~MentionsOperator(h)
         /\ ~SomeTokenIsTrigger(TrimmedRuns(msg[h].content))) => ~do_shock[h]

\* The trigger word "cat" is only the beginning of the token "cats", and the
\* message without mention has not triggered.
C17_Witness ==
    \E h \in Handlers :
        /\ Evaluated(h)
        /\ ~MentionsOperator(h)
        /\ config.trigger_words = {<<"c", "a", "t">>}
        /\ msg[h].content = <<"c", "a", "t", "s">>
        /\ ~do_shock[h]

\* C18: an entry appears only in the fire request of its user, with the
\* stopwatch at the clock and the count at 0; an entry never disappears; and
\* with a limit of at least 1 the request that created the entry is allowed
\* and ends with the count at 1.
C18_EntryLifecycle ==
    [][/\ \A u \in Users :
            /\ HasEntry(u) => user_shock_cooldowns'[u] # NoEntry
            /\ (~HasEntry(u) /\ user_shock_cooldowns'[u] # NoEntry)
                   => /\ \E h \in Handlers :
                             /\ data_lock = h /\ Author(h) = u /\ do_shock[h]
                             /\ pc[h] = "entry" /\ pc'[h] = "can_shock"
                      /\ user_shock_cooldowns'[u] =
                             [stopwatch |-> clock, shock_count |-> 0]
       /\ \A h \in Handlers :
            (created'[h] /\ config.max_shocks_per_segment >= 1)
                => /\ tf'[h].result \in {"none", "Allowed"}
                   /\ pc'[h] \notin {"remaining", "say"}
                   /\ pc'[h] = "exit"
                          => /\ tf'[h].result = "Allowed"
                             /\ user_shock_cooldowns'[Author(h)].shock_count = 1
      ]_vars

\* The task h leaves can_shock's reset in this step.
Rollover(h) == pc[h] = "reset" /\ pc'[h] # "reset"

====
